---- MODULE Spec2Model ----
(***************************************************************************)
(* POI catalog ingestion (aijon_lib/poi_interface/crash_poi.py,            *)
(* oss_fuzz_poi.py) and the call-path engine with its thread-based timeout *)
(* (aijon_lib/poi_interface/poi_poi.py), as a state machine.               *)
(***************************************************************************)
EXTENDS Integers, Sequences, FiniteSets, TLC

(***************************************************************************)
(* Bounds of the model.                                                    *)
(***************************************************************************)
\* get_call_path_to calls in one run (each starts one worker thread)
MaxCalls == 1
\* items (stack frames, function entries, locations) in one report
MaxItems == 3
\* add_poi is explored from catalogs shorter than this
MaxPre == 2

(***************************************************************************)
(* Program constants.                                                      *)
(***************************************************************************)
\* the catalog cap tested at insertion time
MaxPois == 100

NoneVal == "None"

Range(s) == {s[i] : i \in 1..Len(s)}

RECURSIVE SetToSeq(_)
\* list(a_set): the elements once each; the order is the set's iteration order,
\* fixed here to one order
SetToSeq(S) ==
  IF S = {} THEN <<>>
  ELSE LET x == CHOOSE y \in S : TRUE IN <<x>> \o SetToSeq(S \ {x})

RECURSIVE Flatten(_)
Flatten(ss) == IF ss = <<>> THEN <<>> ELSE Head(ss) \o Flatten(Tail(ss))

IsDistinct(s) == \A i, j \in 1..Len(s) : s[i] = s[j] => i = j

(***************************************************************************)
(* Call graphs.  gen_callgraph_from_file builds a graph by add_edge only,  *)
(* so a graph is its edge set and its nodes are the endpoints.             *)
(***************************************************************************)
LLVM == "LLVMFuzzerTestOneInput"
MAIN == "main"

FuncNames == {LLVM, MAIN, "a", "b", "ab"}

\* the caller -> callee pairs an analyzer output may list
CandidateEdges ==
  { <<LLVM, "a">>, <<"a", "b">>, <<"b", "a">>, <<MAIN, "a">> }

Graphs == SUBSET CandidateEdges

Harnesses == {"h1", "h2"}

Nodes(cg) == {e[1] : e \in cg} \cup {e[2] : e \in cg}

Successors(cg, n) == {e[2] : e \in {d \in cg : d[1] = n}}

Predecessors(cg, n) == {e[1] : e \in {d \in cg : d[2] = n}}

\* set(target) of a str target: its characters.  Only one-character names can
\* be nodes, so the characters that are no function name are left out.
Chars(name) ==
  CASE name = "a" -> {"a"}
    [] name = "b" -> {"b"}
    [] name = "ab" -> {"a", "b"}
    [] name = MAIN -> {"a"}
    [] OTHER -> {}

\* networkx.all_simple_paths(G, source, target): target is "a single node or
\* an iterable of nodes"; a target that is no node of G is read as an iterable
\* (set(target)), and only a TypeError there raises NodeNotFound.  A str is
\* iterable, so a sink name absent from G never raises: its characters become
\* the targets.
Targets(cg, target) ==
  IF target \in Nodes(cg) THEN {target} ELSE Chars(target)

RECURSIVE SimplePathsFrom(_, _, _)
\* the simple paths that extend `path` and end in a target, depth first
SimplePathsFrom(cg, path, targets) ==
  LET last == path[Len(path)]
      here == IF last \in targets /\ Len(path) > 1 THEN <<path>> ELSE <<>>
      next == SetToSeq(Successors(cg, last) \ Range(path))
      more == [i \in 1..Len(next) |->
                 SimplePathsFrom(cg, Append(path, next[i]), targets)]
  IN here \o Flatten(more)

\* all_simple_paths called with cutoff=1: only the direct edge is found
all_simple_paths_cutoff(cg, source, target) ==
  LET targets == Targets(cg, target)
      paths == IF source \in targets THEN <<>>
               ELSE SimplePathsFrom(cg, <<source>>, targets)
  IN SelectSeq(paths, LAMBDA p : Len(p) <= 2)

\* the paths nx.all_simple_paths yields (the one-node path source = target is
\* yielded by some releases and not by others; call_path holds the sink anyway)
all_simple_paths(cg, source, target) ==
  LET targets == Targets(cg, target)
  IN IF source \in targets THEN <<>>
     ELSE SimplePathsFrom(cg, <<source>>, targets)

RECURSIVE LongestWalk(_, _, _, _, _)
\* the while loop of find_longest_paths: worklist.pop() takes the last element;
\* popped lists the nodes the loop has expanded
LongestWalk(cg, worklist, seen, longest_paths, popped) ==
  IF worklist = <<>> THEN [longest_paths |-> longest_paths, popped |-> popped]
  ELSE LET current_node == worklist[Len(worklist)]
           rest == SubSeq(worklist, 1, Len(worklist) - 1)
           predecessors == SetToSeq(Predecessors(cg, current_node))
           fresh == SetToSeq(Predecessors(cg, current_node) \ seen)
       IN LongestWalk(cg, rest \o fresh,
                      seen \cup Predecessors(cg, current_node),
                      longest_paths \o predecessors,
                      Append(popped, current_node))

\* find_longest_paths from worklist = list(cg.predecessors(sink_node)) on
WalkFromSink(cg, sink_node) ==
  LET worklist == SetToSeq(Predecessors(cg, sink_node))
  IN LongestWalk(cg, worklist, Predecessors(cg, sink_node),
                 <<sink_node>> \o worklist, <<>>)

\* only the callers of the sink, no walk
find_direct_callers(cg, sink_node) ==
  << <<sink_node>> \o SetToSeq(Predecessors(cg, sink_node)) >>

find_longest_paths(cg, sink_node) ==
  IF sink_node \notin Nodes(cg) THEN << <<sink_node>> >>
  ELSE << WalkFromSink(cg, sink_node).longest_paths >>

start_node(cg) == IF LLVM \in Nodes(cg) THEN LLVM ELSE MAIN

\* one iteration of the for loop of _find_paths: what one harness graph adds
\* to call_path
HarnessPaths(cg, sink_funcname) ==
  IF start_node(cg) \in Nodes(cg)
  THEN Flatten(all_simple_paths(cg, start_node(cg), sink_funcname))
  ELSE Flatten(find_longest_paths(cg, sink_funcname))

\* all_simple_paths raising NodeNotFound for a sink the graph does not hold
HarnessRaisesNodeNotFound(cg, sink_funcname) ==
  start_node(cg) \in Nodes(cg) /\ sink_funcname \notin Nodes(cg)

\* whether that iteration raises (the try catches nx.NetworkXNoPath only)
HarnessRaises(cg, sink_funcname) == FALSE

(***************************************************************************)
(* The FunctionIndex store behind self.function_resolver, in the store's   *)
(* own order.  file: what find_by_filename matches; keypath: the file path *)
(* text that occurs in the key; focus: the key find_matching_indices maps  *)
(* it to under scope="focus" (NoneVal: reported missing); indexed: whether *)
(* get(key) returns an index.                                              *)
(***************************************************************************)
Store ==
  << [key |-> "k1", file |-> "f.c", keypath |-> "f.c", start_line |-> 1,
      end_line |-> 5, funcname |-> "a", focus |-> "k1", indexed |-> TRUE],
     [key |-> "k2", file |-> "f.c", keypath |-> "f.c", start_line |-> 3,
      end_line |-> 4, funcname |-> "b", focus |-> "k2", indexed |-> TRUE],
     [key |-> "k3", file |-> "g.c", keypath |-> "g.c", start_line |-> 1,
      end_line |-> 5, funcname |-> "c", focus |-> NoneVal, indexed |-> TRUE],
     [key |-> "k4", file |-> "g.c", keypath |-> "g.c", start_line |-> 10,
      end_line |-> 12, funcname |-> "ab", focus |-> "k4", indexed |-> TRUE],
     [key |-> "k5", file |-> "f.c", keypath |-> "e.c", start_line |-> 1,
      end_line |-> 2, funcname |-> "b", focus |-> "k5", indexed |-> TRUE],
     [key |-> "k6", file |-> "g.c", keypath |-> "g.c", start_line |-> 10,
      end_line |-> 12, funcname |-> "ab", focus |-> "k6", indexed |-> FALSE],
     [key |-> "k7", file |-> "g.c", keypath |-> "g.c", start_line |-> 20,
      end_line |-> 22, funcname |-> "a", focus |-> "k7", indexed |-> TRUE] >>

Keys == {Store[i].key : i \in 1..Len(Store)}

Entry(key) == Store[CHOOSE i \in 1..Len(Store) : Store[i].key = key]

\* function_resolver.find_by_filename(file_path): keys in the store's order
find_by_filename(file_path) ==
  LET hit(e) == e.file = file_path
      sel == SelectSeq(Store, hit)
  IN [i \in 1..Len(sel) |-> sel[i].key]

\* function_resolver.get(key) is None
get_is_none(key) == key \notin Keys \/ ~Entry(key).indexed

\* function_resolver.get(key), where it is not None
get(key) == Entry(key)

\* function_resolver.find_matching_indices(keys, scope="focus")[0].values()
find_matching_indices(keys) ==
  {Entry(keys[i]).focus : i \in 1..Len(keys)} \ {NoneVal}

\* the interpreter's hash seeds (PYTHONHASHSEED): the iteration order of a
\* set of str is fixed within one process and differs between processes
HashSeeds == {"asc", "desc"}

KeyRank(key) == CHOOSE i \in 1..Len(Store) : Store[i].key = key

\* list(set(...))[0]
FirstOfSet(S, seed) ==
  IF seed = "asc"
  THEN CHOOSE k \in S : \A o \in S : KeyRank(k) <= KeyRank(o)
  ELSE CHOOSE k \in S : \A o \in S : KeyRank(k) >= KeyRank(o)

\* the same without foo = filter(lambda x: file_path in x, func_indices)
get_funcindex_any_key(file_path, line_number, seed) ==
  LET covers(key) == /\ ~get_is_none(key)
                     /\ get(key).start_line <= line_number
                     /\ line_number <= get(key).end_line
      func_indices == SelectSeq(find_by_filename(file_path), covers)
      fixed_indices == find_matching_indices(func_indices)
  IN IF Cardinality(fixed_indices) < 1 THEN NoneVal
     ELSE FirstOfSet(fixed_indices, seed)

\* CrashPOI.get_funcindex_from_backtrace and OSSFuzzPOI.get_funcindex_from_json
\* (the same body; func_name is not read)
get_funcindex(file_path, line_number, seed) ==
  LET covers(key) == /\ ~get_is_none(key)
                     /\ get(key).start_line <= line_number
                     /\ line_number <= get(key).end_line
      func_indices == SelectSeq(find_by_filename(file_path), covers)
      inkey(key) == Entry(key).keypath = file_path
      foo == SelectSeq(func_indices, inkey)
      fixed_indices == find_matching_indices(foo)
  IN IF Cardinality(fixed_indices) < 1 THEN NoneVal
     ELSE FirstOfSet(fixed_indices, seed)

get_funcindex_from_backtrace(func_name, file_path, line_number, seed) ==
  get_funcindex(file_path, line_number, seed)

get_funcindex_from_json(func_name, file_path, line_number, seed) ==
  get_funcindex(file_path, line_number, seed)

(***************************************************************************)
(* Reports.                                                                *)
(***************************************************************************)
LIBC == "__libc_start_main"

\* stack-frame lines "#n addr in <func> /path/<file>:<line>[:<col>]"
CrashFrames ==
  { [func |-> "a", file |-> "f.c", line |-> 1, col |-> TRUE],
    [func |-> "b", file |-> "f.c", line |-> 3, col |-> TRUE],
    [func |-> "c", file |-> "g.c", line |-> 1, col |-> TRUE],
    [func |-> "ab", file |-> "g.c", line |-> 10, col |-> TRUE],
    [func |-> "a", file |-> "f.c", line |-> 2, col |-> FALSE],
    [func |-> LLVM, file |-> "h.c", line |-> 1, col |-> TRUE],
    [func |-> LIBC, file |-> "h.c", line |-> 1, col |-> TRUE] }

\* entries of the "functions" list of a coverage-gap report; cov stands for the
\* entry's runtime_coverage_percent and accummulated_complexity
JsonEntries ==
  { [is_reached |-> "true", file |-> "f.c", source_line_begin |-> 1,
     source_line_end |-> 5, cov |-> 1],
    [is_reached |-> "true", file |-> "f.c", source_line_begin |-> 3,
     source_line_end |-> 4, cov |-> 2],
    [is_reached |-> "false", file |-> "f.c", source_line_begin |-> 1,
     source_line_end |-> 5, cov |-> 3],
    [is_reached |-> "missing", file |-> "g.c", source_line_begin |-> 10,
     source_line_end |-> 12, cov |-> 4],
    [is_reached |-> "true", file |-> "g.c", source_line_begin |-> 0,
     source_line_end |-> 12, cov |-> 5],
    [is_reached |-> "true", file |-> "g.c", source_line_begin |-> 10,
     source_line_end |-> 0, cov |-> 6],
    [is_reached |-> "true", file |-> "g.c", source_line_begin |-> 1,
     source_line_end |-> 5, cov |-> 7] }

\* {file, startLine} locations of a static-analysis report
SarifLocations ==
  { [file |-> "f.c", startLine |-> 1],
    [file |-> "f.c", startLine |-> 3],
    [file |-> "g.c", startLine |-> 1],
    [file |-> "g.c", startLine |-> 10] }

SeqsUpTo(S, n) == UNION {[1..m -> S] : m \in 0..n}

RECURSIVE Splits(_)
\* the ways to cut a sequence into consecutive non-empty blocks
Splits(s) ==
  IF s = <<>> THEN {<<>>}
  ELSE UNION { { <<SubSeq(s, 1, k)>> \o r : r \in Splits(SubSeq(s, k + 1, Len(s))) }
               : k \in 1..Len(s) }

\* a crash report: its stack-trace blocks, each a sequence of frames
CrashReports(n) == UNION {Splits(s) : s \in SeqsUpTo(CrashFrames, n)}

\* a coverage-gap report: its "functions" list
JsonReports(n) == SeqsUpTo(JsonEntries, n)

\* a static-analysis report: its vulnerabilities, each a list of locations
SarifReports(n) == UNION {Splits(s) : s \in SeqsUpTo(SarifLocations, n)}

(***************************************************************************)
(* POI records.  A field the variant does not set is "-" / 0 / <<>>.       *)
(***************************************************************************)
\* "function_contains_vulnerability": True for every POI
CrashPoiFlagged(func_index, flag, block) ==
  [function_index_key |-> func_index, function_contains_vulnerability |-> "True",
   backtrace |-> block, vulnerability_name |-> 0, runtime_coverage_percent |-> 0]

CrashPoi(func_index, flag, block) ==
  [function_index_key |-> func_index, function_contains_vulnerability |-> flag,
   backtrace |-> block, vulnerability_name |-> 0, runtime_coverage_percent |-> 0]

JsonPoi(func_index, cov) ==
  [function_index_key |-> func_index, function_contains_vulnerability |-> "-",
   backtrace |-> <<>>, vulnerability_name |-> 0, runtime_coverage_percent |-> cov]

SarifPoi(func_index, name) ==
  [function_index_key |-> func_index, function_contains_vulnerability |-> "-",
   backtrace |-> <<>>, vulnerability_name |-> name, runtime_coverage_percent |-> 0]

PoiKeys(ps) == [i \in 1..Len(ps) |-> ps[i].function_index_key]

(***************************************************************************)
(* CrashPOI.parse_poi_from_crash_report.  st holds the loop's variables:   *)
(* pois, seen_func_indices, first_leader, leader, _block_leaders,          *)
(* _block_leaders_call_path.                                               *)
(***************************************************************************)
\* "LLVMFuzzerTestOneInput" in func only
IsFuzzEntryOnly(func) == func = LLVM

\* "LLVMFuzzerTestOneInput" in func / "__libc_start_main" in func
IsEntrySymbol(func) == func = LLVM \/ func = LIBC

\* if len(self._pois) < 100: self._pois.append(poi_obj)
CrashAppend(pois_, poi_obj) ==
  IF Len(pois_) < MaxPois THEN Append(pois_, poi_obj) ELSE pois_

\* the body of the frame loop for a frame that resolved to a new func_index
CrashRecord(st, func_index, block) ==
  LET funcname == get(func_index).funcname
      isLeader == st.leader = NoneVal
      leader == IF isLeader THEN func_index ELSE st.leader
      leaderName == get(leader).funcname
      isFirst == st.first_leader = NoneVal
      flag == IF isFirst THEN "True" ELSE "False"
      paths == IF isLeader
               THEN (funcname :> <<>>) @@ st.call_path
               ELSE (leaderName :> Append(st.call_path[leaderName], funcname))
                    @@ st.call_path
  IN [pois |-> CrashAppend(st.pois, CrashPoi(func_index, flag, block)),
      seen |-> st.seen \cup {func_index},
      first_leader |-> IF isFirst THEN leader ELSE st.first_leader,
      leader |-> leader,
      block_leaders |-> IF isLeader THEN Append(st.block_leaders, funcname)
                        ELSE st.block_leaders,
      call_path |-> paths]

\* elif func_index in seen_func_indices, never true
AlreadySeenNever(func_index, seen_func_indices) == FALSE

\* elif func_index in seen_func_indices
AlreadySeen(func_index, seen_func_indices) == func_index \in seen_func_indices

\* if func_index is None: break -- no frame of the block is left to walk
AfterUnresolvedBreak(frames) == <<>>

\* if func_index is None: continue -- the walk goes on with the next frame
AfterUnresolved(frames) == Tail(frames)

RECURSIVE CrashWalkFrames(_, _, _, _)
\* for func, loc in line_matches
CrashWalkFrames(st, frames, block, seed) ==
  IF frames = <<>> THEN st
  ELSE LET f == Head(frames)
           func_index == get_funcindex_from_backtrace(f.func, f.file, f.line, seed)
       IN IF IsEntrySymbol(f.func) THEN st
          ELSE IF ~f.col THEN CrashWalkFrames(st, Tail(frames), block, seed)
          ELSE IF func_index = NoneVal
            THEN CrashWalkFrames(st, AfterUnresolved(frames), block, seed)
          ELSE IF AlreadySeen(func_index, st.seen)
            THEN CrashWalkFrames(st, Tail(frames), block, seed)
          ELSE CrashWalkFrames(CrashRecord(st, func_index, block),
                               Tail(frames), block, seed)

RECURSIVE CrashWalkBlocks(_, _, _)
\* for block in matches
CrashWalkBlocks(st, blocks, seed) ==
  IF blocks = <<>> THEN st
  ELSE CrashWalkBlocks(
         CrashWalkFrames([st EXCEPT !.leader = NoneVal],
                         Head(blocks), Head(blocks), seed),
         Tail(blocks), seed)

\* CrashPOI.add_poi: the leaders are reset, the catalog is kept
parse_poi_from_crash_report(pois_, report, seed) ==
  CrashWalkBlocks([pois |-> pois_, seen |-> {}, first_leader |-> NoneVal,
                   leader |-> NoneVal, block_leaders |-> <<>>,
                   call_path |-> <<>>],
                  report, seed)

(***************************************************************************)
(* OSSFuzzPOI.parse_poi_from_optimal_targets                               *)
(***************************************************************************)
\* function_obj.get("is_reached", True) is False
NotReachedDefaultTrue(function_obj) == function_obj.is_reached = "false"

\* function_obj.get("is_reached", False) is False
NotReached(function_obj) == function_obj.is_reached \in {"false", "missing"}

RECURSIVE parse_poi_from_optimal_targets(_, _, _)
parse_poi_from_optimal_targets(pois_, functions, seed) ==
  IF functions = <<>> THEN pois_
  ELSE LET function_obj == Head(functions)
           start_line == function_obj.source_line_begin
           end_line == function_obj.source_line_end
           func_index == get_funcindex_from_json("", function_obj.file,
                                                 start_line, seed)
       IN IF NotReached(function_obj)
            THEN parse_poi_from_optimal_targets(pois_, Tail(functions), seed)
          ELSE IF start_line = 0 \/ end_line = 0
            THEN parse_poi_from_optimal_targets(pois_, Tail(functions), seed)
          ELSE IF func_index = NoneVal
            THEN parse_poi_from_optimal_targets(pois_, Tail(functions), seed)
          ELSE IF Len(pois_) > MaxPois THEN pois_
          ELSE parse_poi_from_optimal_targets(
                 Append(pois_, JsonPoi(func_index, function_obj.cov)),
                 Tail(functions), seed)

(***************************************************************************)
(* OSSFuzzPOI.parse_poi_from_codeql_report.  acc holds pois and            *)
(* seen_indices.                                                           *)
(***************************************************************************)
\* if func_index
SarifIsNewUnseen(func_index, seen_indices) == func_index # NoneVal

\* if func_index and func_index not in seen_indices
SarifIsNew(func_index, seen_indices) ==
  func_index # NoneVal /\ func_index \notin seen_indices

RECURSIVE SarifWalkLocations(_, _, _, _)
\* for location in vulnerability['locations'], with its break
SarifWalkLocations(acc, locations, name, seed) ==
  IF locations = <<>> THEN acc
  ELSE LET location == Head(locations)
           func_index == get_funcindex_from_json("", location.file,
                                                 location.startLine, seed)
           new == IF SarifIsNew(func_index, acc.seen)
                  THEN [pois |-> Append(acc.pois, SarifPoi(func_index, name)),
                        seen |-> acc.seen \cup {func_index}]
                  ELSE acc
       IN IF Len(new.pois) > MaxPois THEN new
          ELSE SarifWalkLocations(new, Tail(locations), name, seed)

RECURSIVE SarifWalkVulnerabilities(_, _, _, _)
\* for vulnerability in codeql_report['vulnerabilities']
SarifWalkVulnerabilities(acc, vulnerabilities, name, seed) ==
  IF vulnerabilities = <<>> THEN acc
  ELSE SarifWalkVulnerabilities(
         SarifWalkLocations(acc, Head(vulnerabilities), name, seed),
         Tail(vulnerabilities), name + 1, seed)

parse_poi_from_codeql_report(pois_, report, seed) ==
  SarifWalkVulnerabilities([pois |-> pois_, seen |-> Range(PoiKeys(pois_))],
                           report, 1, seed).pois

(***************************************************************************)
(* State.                                                                  *)
(***************************************************************************)
VARIABLES
  report,                   \* the run's report file (main.py: report_path): [kind, body]
  hashseed,                 \* the process's hash seed
  pois,                     \* self._pois
  has_block_leaders,        \* whether add_poi has created the two attributes below
  block_leaders,            \* self._block_leaders
  block_leaders_call_path,  \* self._block_leaders_call_path
  harness_cfg,              \* self.harness_cfg, in insertion order: [name, cg]
  call,                     \* the get_call_path_to call in progress or last returned
  thread,                   \* the worker thread of that call, with the wrapper's containers
  leaked,                   \* worker threads abandoned by a timed-out call, still running
  ncalls,                   \* get_call_path_to calls made
  hist                      \* the last catalog operation and the catalog before it

VARIABLES
  store,                    \* what self.function_resolver answers: the store's state
  resolution,               \* the last get_function_index_from_poi call and its outcome
  observed                  \* per query, the outcomes its calls have had

resolverVars == <<store, resolution, observed>>

VARIABLES
  environ,                  \* os.environ and the IDA installation: [IDA_PATH, idat64]
  analysis                  \* the last analyze_harness_binaries call and how its jobs ended

analyzerVars == <<environ, analysis>>

VARIABLES
  ctr,                      \* __main__: ctr
  run,                      \* __main__: where the retry loop stands, main() calls made
  worker_results,           \* main: results, as pool.starmap returns them
  applied                   \* main: the patches written so far, in order

mainVars == <<ctr, run, worker_results, applied>>

\* the state outside the catalog, the cache and the call-path engine
outerVars == <<resolverVars, analyzerVars, mainVars>>

vars == <<report, hashseed, pois, has_block_leaders, block_leaders,
          block_leaders_call_path, harness_cfg, call, thread, leaked, ncalls,
          hist, outerVars>>

\* the catalog, the cache and the call-path engine
poiVars == <<report, hashseed, pois, has_block_leaders, block_leaders,
             block_leaders_call_path, harness_cfg, call, thread, leaked,
             ncalls, hist>>

engineVars == <<call, thread, leaked, ncalls>>

\* main.py builds a CrashPOI for a crash report and an OSSFuzzPOI otherwise
variant == IF report.kind = "crash" THEN "crash" ELSE "ossfuzz"

NoThread ==
  [sink |-> NoneVal, idx |-> 0, call_path |-> <<>>, alive |-> FALSE,
   result_container |-> <<>>, exception_container |-> <<>>]

\* cache is the value of self.harness_cfg the call reads
NoCall ==
  [state |-> "IDLE", sink |-> NoneVal, result |-> <<>>, exc |-> NoneVal,
   cache |-> <<>>]

InProgress == call.state \in {"PENDING", "RUNNING"}

\* the reports of a kind, tagged with the kind (the file's suffix)
Tagged(kind, bodies) == {[kind |-> kind, body |-> b] : b \in bodies}

\* function_index_str values and identity keys of the resolver's store
Queries == {"k1", "q"}

ResolverKeys == {"k1", "k2"}

\* a store nothing matches in
EmptyStore ==
  [find_matching_index |-> [q \in Queries |-> "raise"],
   get |-> [k \in ResolverKeys \cup Queries |-> "raise"],
   resolve_source_location |->
     [q \in Queries |-> [raises |-> TRUE, candidates |-> <<>>]],
   function_index_to_source_location |-> "loc"]

NoResolution ==
  [query |-> NoneVal, kind |-> "-", key |-> NoneVal, calls |-> <<>>]

\* no get_function_index_from_poi call made
ResolverIdle ==
  /\ store = EmptyStore
  /\ resolution = NoResolution
  /\ observed = [q \in Queries |-> {}]

\* a job of analyze_harness_binaries that was not submitted
NotStarted == [kind |-> "-", exc |-> NoneVal, analyzers |-> <<>>]

NoAnalysis ==
  [state |-> "idle", exc |-> NoneVal, jobs |-> [h \in Harnesses |-> NotStarted],
   before |-> <<>>]

\* IDA configured, analyze_harness_binaries not called
AnalyzerIdle ==
  /\ environ = [IDA_PATH |-> TRUE, idat64 |-> TRUE]
  /\ analysis = NoAnalysis

\* the retry loop not entered
MainIdle ==
  /\ ctr = 0
  /\ run = [state |-> "idle", attempts |-> 0, exc |-> NoneVal]
  /\ worker_results = <<>>
  /\ applied = <<>>

InitPoi(reports, seeds) ==
  /\ report \in reports
  /\ hashseed \in seeds
  /\ pois = <<>>
  /\ has_block_leaders = FALSE
  /\ block_leaders = <<>>
  /\ block_leaders_call_path = <<>>
  /\ harness_cfg = <<>>
  /\ call = NoCall
  /\ thread = NoThread
  /\ leaked = <<>>
  /\ ncalls = 0
  /\ hist = [op |-> "init", prePois |-> <<>>]

InitWith(reports, seeds) ==
  /\ InitPoi(reports, seeds)
  /\ ResolverIdle
  /\ AnalyzerIdle
  /\ MainIdle

(***************************************************************************)
(* Catalog operations.                                                     *)
(***************************************************************************)
\* CrashPOI.add_poi(crash_report)
CrashAddPoi ==
  /\ report.kind = "crash"
  /\ ~InProgress
  /\ LET st == parse_poi_from_crash_report(pois, report.body, hashseed)
     IN /\ pois' = st.pois
        /\ block_leaders' = st.block_leaders
        /\ block_leaders_call_path' = st.call_path
  /\ has_block_leaders' = TRUE
  /\ hist' = [op |-> "crash", prePois |-> pois]
  /\ UNCHANGED <<outerVars, report, hashseed, harness_cfg, engineVars>>

\* OSSFuzzPOI.add_poi(target_file), target_file.suffix == ".json"
JsonAddPoi ==
  /\ report.kind = "json"
  /\ ~InProgress
  /\ pois' = parse_poi_from_optimal_targets(pois, report.body, hashseed)
  /\ hist' = [op |-> "json", prePois |-> pois]
  /\ UNCHANGED <<outerVars, report, hashseed, has_block_leaders, block_leaders,
                 block_leaders_call_path, harness_cfg, engineVars>>

\* OSSFuzzPOI.add_poi(target_file), target_file.suffix == ".yaml"
SarifAddPoi ==
  /\ report.kind = "yaml"
  /\ ~InProgress
  /\ pois' = parse_poi_from_codeql_report(pois, report.body, hashseed)
  /\ hist' = [op |-> "sarif", prePois |-> pois]
  /\ UNCHANGED <<outerVars, report, hashseed, has_block_leaders, block_leaders,
                 block_leaders_call_path, harness_cfg, engineVars>>

\* POI.remove_all_pois
RemoveAllPois ==
  /\ ~InProgress
  /\ pois' = <<>>
  /\ hist' = [op |-> "remove", prePois |-> pois]
  /\ UNCHANGED <<outerVars, report, hashseed, has_block_leaders, block_leaders,
                 block_leaders_call_path, harness_cfg, engineVars>>

(***************************************************************************)
(* Ingestion: every report of at most MaxItems items; add_poi again on a   *)
(* catalog shorter than MaxPre.                                            *)
(***************************************************************************)
IngestReports ==
  Tagged("crash", CrashReports(MaxItems))
    \cup Tagged("json", JsonReports(MaxItems))
    \cup Tagged("yaml", SarifReports(MaxItems))

InitIngest == InitWith(IngestReports, HashSeeds)

NextIngest ==
  \/ Len(pois) < MaxPre /\ CrashAddPoi
  \/ Len(pois) < MaxPre /\ JsonAddPoi
  \/ Len(pois) < MaxPre /\ SarifAddPoi

SpecIngest == InitIngest /\ [][NextIngest]_vars

(***************************************************************************)
(* The call-graph cache.                                                   *)
(***************************************************************************)
\* what the analyzer jobs of one analyze_harness_binaries call return, in
\* as_completed order: (name, yaml file) with ok, or (name, None)
AnalyzerResults ==
  LET outcomes == [name : Harnesses, ok : {TRUE}, cg : Graphs]
                    \cup [name : Harnesses, ok : {FALSE}, cg : {{}}]
  IN {rs \in SeqsUpTo(outcomes, Cardinality(Harnesses)) :
        \A i, j \in 1..Len(rs) : rs[i].name = rs[j].name => i = j}

\* no job is submitted when the cache already holds a graph
JobResults == IF harness_cfg # <<>> THEN {<<>>} ELSE AnalyzerResults

\* the for loop over as_completed(futures): a job that returned None is skipped
AssignGraphs(results) ==
  LET ok(r) == r.ok
      done == SelectSeq(results, ok)
  IN [i \in 1..Len(done) |-> [name |-> done[i].name, cg |-> done[i].cg]]

\* POI.analyze_harness_binaries; main.py calls it before any call-path query
AnalyzeHarnessBinaries(results) ==
  /\ ~InProgress
  /\ leaked = <<>>
  /\ harness_cfg' = IF harness_cfg # <<>> THEN harness_cfg
                     ELSE AssignGraphs(results)
  /\ UNCHANGED <<outerVars, report, hashseed, pois, has_block_leaders, block_leaders,
                 block_leaders_call_path, engineVars, hist>>

(***************************************************************************)
(* POI.get_call_path_to: _find_paths run by with_timeout in a daemon       *)
(* thread that the caller joins with a timeout.                            *)
(***************************************************************************)
\* call_path = []
InitialCallPathEmpty(sink_funcname) == <<>>

\* call_path = [sink_funcname]
InitialCallPath(sink_funcname) == <<sink_funcname>>

\* return list(set(call_path))
FindPathsResult(call_path) == SetToSeq(Range(call_path))

\* the worker's next step: one iteration of the for loop of _find_paths, or,
\* after the last, the return into result_container; an exception ends the
\* thread with the exception in exception_container
WorkerAdvance(th) ==
  IF th.idx < Len(harness_cfg)
  THEN LET cg == harness_cfg[th.idx + 1].cg
       IN IF HarnessRaises(cg, th.sink)
          THEN [th EXCEPT !.alive = FALSE,
                          !.exception_container = <<"NodeNotFound">>]
          ELSE [th EXCEPT !.idx = th.idx + 1,
                          !.call_path = th.call_path \o HarnessPaths(cg, th.sink)]
  ELSE [th EXCEPT !.alive = FALSE,
                  !.result_container = <<FindPathsResult(th.call_path)>>]

\* cg = self.harness_cfg[sink_funcname]: a defaultdict stores an empty graph
\* under a key it does not hold
CacheAfterReadBySink(cfg, th) ==
  IF \E i \in 1..Len(cfg) : cfg[i].name = th.sink THEN cfg
  ELSE Append(cfg, [name |-> th.sink, cg |-> {}])

\* cg = self.harness_cfg[harness] with harness a key the for loop yielded:
\* the defaultdict holds it and stores nothing
CacheAfterRead(cfg, th) == cfg

\* the except branch returning the paths found so far
TimeoutResultPartial(sink_funcname, th) == SetToSeq(Range(th.call_path))

\* what get_call_path_to returns when the wrapper raises TimeoutError
TimeoutResult(sink_funcname, th) == <<sink_funcname>>

\* the caller enters POI.get_call_path_to(sink_funcname): PENDING; the run
\* makes at most limit calls
TimedCall(sink_funcname, limit) ==
  /\ variant = "ossfuzz"
  /\ ~InProgress
  /\ ncalls < limit
  /\ call' = [state |-> "PENDING", sink |-> sink_funcname, result |-> <<>>,
              exc |-> NoneVal, cache |-> harness_cfg]
  /\ thread' = NoThread
  /\ ncalls' = ncalls + 1
  /\ UNCHANGED <<outerVars, report, hashseed, pois, has_block_leaders, block_leaders,
                 block_leaders_call_path, harness_cfg, leaked, hist>>

GetCallPathTo(sink_funcname) == TimedCall(sink_funcname, MaxCalls)

\* containers shared by the calls: the wrapper reads those of the oldest
\* abandoned thread when there is one
JoinedThreadOldest(th, lk) == IF lk # <<>> THEN lk[1] ELSE th

\* result_container and exception_container are locals of one wrapper call:
\* the wrapper reads those of the thread it started
JoinedThread(th, lk) == th

\* thread.start(): RUNNING
ThreadStart ==
  /\ call.state = "PENDING"
  /\ thread' = [sink |-> call.sink, idx |-> 0,
                call_path |-> InitialCallPath(call.sink),
                alive |-> TRUE, result_container |-> <<>>,
                exception_container |-> <<>>]
  /\ call' = [call EXCEPT !.state = "RUNNING"]
  /\ UNCHANGED <<outerVars, report, hashseed, pois, has_block_leaders, block_leaders,
                 block_leaders_call_path, harness_cfg, leaked, ncalls, hist>>

\* the worker of the call in progress runs
WorkerStep ==
  /\ call.state = "RUNNING"
  /\ thread.alive
  /\ thread' = WorkerAdvance(thread)
  /\ harness_cfg' = CacheAfterRead(harness_cfg, thread)
  /\ UNCHANGED <<outerVars, report, hashseed, pois, has_block_leaders, block_leaders,
                 block_leaders_call_path, call, leaked, ncalls, hist>>

\* thread.join returns with the thread finished: the wrapper re-raises the
\* worker's exception or returns its result, else None
JoinReturns ==
  /\ call.state = "RUNNING"
  /\ ~thread.alive
  /\ call' = LET own == JoinedThread(thread, leaked)
             IN IF own.exception_container # <<>>
                THEN [call EXCEPT !.state = "RAISED",
                                  !.exc = own.exception_container[1]]
                ELSE IF own.result_container # <<>>
                THEN [call EXCEPT !.state = "COMPLETED",
                                  !.result = own.result_container[1]]
                ELSE [call EXCEPT !.state = "COMPLETED", !.exc = "ReturnedNone"]
  /\ thread' = NoThread
  /\ UNCHANGED <<outerVars, report, hashseed, pois, has_block_leaders, block_leaders,
                 block_leaders_call_path, harness_cfg, leaked, ncalls, hist>>

\* thread.join times out and thread.is_alive(): the wrapper raises
\* TimeoutError, get_call_path_to catches it; the thread is left running
JoinTimesOut ==
  /\ call.state = "RUNNING"
  /\ thread.alive
  /\ call' = [call EXCEPT !.state = "TIMED_OUT",
                          !.result = TimeoutResult(call.sink, thread)]
  /\ leaked' = Append(leaked, thread)
  /\ thread' = NoThread
  /\ UNCHANGED <<outerVars, report, hashseed, pois, has_block_leaders, block_leaders,
                 block_leaders_call_path, harness_cfg, ncalls, hist>>

\* an abandoned worker runs; once it ends, nothing refers to its containers
LeakedStep(i) ==
  /\ i \in 1..Len(leaked)
  /\ LET th == WorkerAdvance(leaked[i])
     IN leaked' = IF th.alive THEN [leaked EXCEPT ![i] = th]
                  ELSE SubSeq(leaked, 1, i - 1) \o SubSeq(leaked, i + 1, Len(leaked))
  /\ harness_cfg' = CacheAfterRead(harness_cfg, leaked[i])
  /\ UNCHANGED <<outerVars, report, hashseed, pois, has_block_leaders, block_leaders,
                 block_leaders_call_path, call, thread, ncalls, hist>>

(***************************************************************************)
(* CrashPOI.get_call_path_to: no thread, no timeout.                       *)
(***************************************************************************)
CrashCallPath(sink_funcname) ==
  LET only == harness_cfg[1].cg
      call_path == IF /\ Len(harness_cfg) = 1
                      /\ LLVM \notin Nodes(only)
                      /\ MAIN \in Nodes(only)
                   THEN <<MAIN>> ELSE <<>>
      suffix == IF sink_funcname \in DOMAIN block_leaders_call_path
                THEN block_leaders_call_path[sink_funcname] ELSE <<>>
  IN call_path \o <<sink_funcname>> \o suffix

\* before the first add_poi self._block_leaders_call_path does not exist
CrashGetCallPathTo(sink_funcname) ==
  /\ variant = "crash"
  /\ ~InProgress
  /\ call' = IF has_block_leaders
             THEN [state |-> "COMPLETED", sink |-> sink_funcname,
                   result |-> CrashCallPath(sink_funcname), exc |-> NoneVal,
                   cache |-> harness_cfg]
             ELSE [state |-> "RAISED", sink |-> sink_funcname,
                   result |-> <<>>, exc |-> "AttributeError",
                   cache |-> harness_cfg]
  /\ UNCHANGED <<outerVars, report, hashseed, pois, has_block_leaders, block_leaders,
                 block_leaders_call_path, harness_cfg, thread, leaked, ncalls,
                 hist>>

(***************************************************************************)
(* The engine: one report per class, every cache of at most one graph per  *)
(* harness, every sink name.                                               *)
(***************************************************************************)
EngineReports ==
  { [kind |-> "crash",
     body |-> << << [func |-> "a", file |-> "f.c", line |-> 1, col |-> TRUE],
                    [func |-> "ab", file |-> "g.c", line |-> 10, col |-> TRUE] >> >>],
    [kind |-> "json",
     body |-> << [is_reached |-> "true", file |-> "f.c", source_line_begin |-> 1,
                  source_line_end |-> 5, cov |-> 1] >>] }

Init == InitWith(EngineReports, {"asc"})

Next ==
  \/ \E results \in JobResults : AnalyzeHarnessBinaries(results)
  \/ pois = <<>> /\ CrashAddPoi
  \/ \E sink_funcname \in FuncNames : GetCallPathTo(sink_funcname)
  \/ ThreadStart
  \/ WorkerStep
  \/ JoinReturns
  \/ JoinTimesOut
  \/ \E i \in 1..MaxCalls : LeakedStep(i)
  \/ \E sink_funcname \in FuncNames : CrashGetCallPathTo(sink_funcname)

Spec == Init /\ [][Next]_vars

(***************************************************************************)
(* The cap: one small report per kind, ingested again and again.           *)
(***************************************************************************)
ReachedEntry ==
  [is_reached |-> "true", file |-> "f.c", source_line_begin |-> 1,
   source_line_end |-> 5, cov |-> 1]

CapReports ==
  Tagged("crash", CrashReports(1))
    \cup Tagged("json", {<<ReachedEntry>>})
    \cup Tagged("yaml", SarifReports(1))

InitCap == InitWith(CapReports, {"asc"})

NextCap ==
  \/ CrashAddPoi
  \/ JsonAddPoi
  \/ SarifAddPoi
  \/ RemoveAllPois

SpecCap == InitCap /\ [][NextCap]_vars

(***************************************************************************)
(* Definitions the properties are stated with.                             *)
(***************************************************************************)
Returned == call.state \in {"COMPLETED", "TIMED_OUT"}

\* the graphs the call iterated over
CachedGraphs == {call.cache[i].cg : i \in 1..Len(call.cache)}

RECURSIVE ReachFrom(_, _)
\* the nodes reachable from the set S by zero or more edges
ReachFrom(cg, S) ==
  LET N == S \cup UNION {Successors(cg, n) : n \in S}
  IN IF N = S THEN S ELSE ReachFrom(cg, N)

\* the sink is reachable in cg from cg's canonical entry node
SinkReachable(cg, sink) ==
  /\ start_node(cg) \in Nodes(cg)
  /\ sink \in Nodes(cg)
  /\ sink \in ReachFrom(cg, {start_node(cg)})

\* p is a simple path of cg from s to t
IsSimplePath(cg, p, s, t) ==
  /\ Len(p) >= 1
  /\ p[1] = s
  /\ p[Len(p)] = t
  /\ IsDistinct(p)
  /\ \A i \in 1..(Len(p) - 1) : <<p[i], p[i + 1]>> \in cg

\* the nodes of cg that lie on some simple path from s to t
OnSimplePath(cg, s, t) ==
  UNION {Range(p) : p \in {q \in SeqsUpTo(Nodes(cg), Cardinality(Nodes(cg))) :
                               IsSimplePath(cg, q, s, t)}}

\* the POIs the last add_poi appended
Added == SubSeq(pois, Len(hist.prePois) + 1, Len(pois))

(***************************************************************************)
(* C1  Cap invariant: the catalog holds at most 100 entries after any      *)
(* sequence of add_poi and remove_all_pois, whatever the variant.          *)
(***************************************************************************)
C1_CapInvariant == Len(pois) <= MaxPois

(***************************************************************************)
(* C2  Call-path soundness: a completed POI.get_call_path_to(sink) returns,*)
(* for every cached graph in which the sink is reachable from the          *)
(* canonical entry node, both that entry and the sink, and every returned  *)
(* name is a node of a cached graph.                                       *)
(***************************************************************************)
C2_Soundness ==
  (variant = "ossfuzz" /\ call.state = "COMPLETED") =>
    \A cg \in CachedGraphs :
      SinkReachable(cg, call.sink) =>
        /\ {start_node(cg), call.sink} \subseteq Range(call.result)
        /\ Range(call.result) \subseteq UNION {Nodes(g) : g \in CachedGraphs}

C2_Witness ==
  /\ variant = "ossfuzz"
  /\ call.state = "COMPLETED"
  /\ Len(call.cache) = 2
  /\ \E cg \in CachedGraphs :
       SinkReachable(cg, call.sink) /\ <<start_node(cg), call.sink>> \notin cg
                                    /\ start_node(cg) # call.sink
  /\ Cardinality(Range(call.result)) >= 3

(***************************************************************************)
(* C3  Call-path exactness: when every cached graph holds its entry node,  *)
(* a completed POI.get_call_path_to(sink) returns exactly the sink plus    *)
(* the nodes that lie on some simple path from the entry to the sink in    *)
(* some cached graph, without duplicates.                                  *)
(***************************************************************************)
C3_Exactness ==
  (/\ variant = "ossfuzz"
   /\ call.state = "COMPLETED"
   /\ \A cg \in CachedGraphs : start_node(cg) \in Nodes(cg)) =>
    /\ Range(call.result) =
         {call.sink} \cup UNION {OnSimplePath(cg, start_node(cg), call.sink) :
                                   cg \in CachedGraphs}
    /\ IsDistinct(call.result)

C5_SinkAlwaysIncluded ==
  Returned =>
    /\ call.result # <<>>
    /\ call.sink \in Range(call.result)
    /\ (variant = "ossfuzz" /\ call.cache = <<>>) => call.result = <<call.sink>>

C5_Witness ==
  /\ variant = "ossfuzz"
  /\ call.state = "COMPLETED"
  /\ \E cg \in CachedGraphs : start_node(cg) \in Nodes(cg) /\ call.sink \notin Nodes(cg)
  /\ \E cg \in CachedGraphs : start_node(cg) \notin Nodes(cg)

C7_SarifDedup ==
  (hist.op = "sarif" /\ IsDistinct(PoiKeys(hist.prePois))) =>
    IsDistinct(PoiKeys(pois))

\* the locations of the report, by vulnerability and position
SarifOccurrences ==
  UNION {{<<v, i>> : i \in 1..Len(report.body[v])} : v \in 1..Len(report.body)}

C7_Witness ==
  /\ hist.op = "sarif"
  /\ Len(Added) >= 2
  /\ \E o1, o2 \in SarifOccurrences :
       /\ o1[1] # o2[1]
       /\ report.body[o1[1]][o1[2]] = report.body[o2[1]][o2[2]]
       /\ get_funcindex_from_json("", report.body[o1[1]][o1[2]].file,
                                  report.body[o1[1]][o1[2]].startLine, hashseed)
            \in Range(PoiKeys(Added))

(***************************************************************************)
(* Frames of the crash report of the run.                                  *)
(***************************************************************************)
FrameKey(f) == get_funcindex_from_backtrace(f.func, f.file, f.line, hashseed)

\* the positions of a block the frame loop walks: those before an entry symbol
Walked(block) ==
  {i \in 1..Len(block) : \A j \in 1..i : ~IsEntrySymbol(block[j].func)}

\* a walked frame the resolver returns no identity for
Unresolvable(block, i) ==
  i \in Walked(block) /\ block[i].col /\ FrameKey(block[i]) = NoneVal

\* a walked frame the resolver returns an identity for
Resolvable(block, i) ==
  i \in Walked(block) /\ block[i].col /\ FrameKey(block[i]) # NoneVal

CrashOccurrences ==
  UNION {{<<b, i>> : i \in {j \in 1..Len(report.body[b]) :
                                Resolvable(report.body[b], j)}}
         : b \in 1..Len(report.body)}

OccurrenceKey(o) == FrameKey(report.body[o[1]][o[2]])

\* the block of the first frame that resolves to key
FirstBlock(key) ==
  LET bs == {o[1] : o \in {x \in CrashOccurrences : OccurrenceKey(x) = key}}
  IN report.body[CHOOSE b \in bs : \A c \in bs : b <= c]

(***************************************************************************)
(* C8  Crash-report dedup: within one CrashPOI.add_poi the frames that     *)
(* resolve to one identity, in the same block or in different blocks,      *)
(* produce exactly one POI, that of the first occurrence; the POIs added   *)
(* by the call have pairwise distinct function_index_key values.           *)
(***************************************************************************)
C8_CrashDedup ==
  hist.op = "crash" =>
    /\ IsDistinct(PoiKeys(Added))
    /\ Range(PoiKeys(Added)) = {OccurrenceKey(o) : o \in CrashOccurrences}
    /\ \A n \in 1..Len(Added) :
         Added[n].backtrace = FirstBlock(Added[n].function_index_key)

C8_Witness ==
  /\ hist.op = "crash"
  /\ \E o1, o2 \in CrashOccurrences :
       /\ o1[1] < o2[1]
       /\ report.body[o1[1]] # report.body[o2[1]]
       /\ OccurrenceKey(o1) = OccurrenceKey(o2)
  /\ \E o1, o2 \in CrashOccurrences :
       /\ o1[1] = o2[1]
       /\ o1[2] < o2[2]
       /\ OccurrenceKey(o1) = OccurrenceKey(o2)

(***************************************************************************)
(* C9  Resolution-failure isolation: a frame the resolver returns nothing  *)
(* for is skipped; the catalog produced from a crash report equals the     *)
(* catalog produced from the report without its unresolvable frames.       *)
(***************************************************************************)
WithoutUnresolvable(blocks) ==
  [b \in 1..Len(blocks) |->
     LET block == blocks[b]
         keep == {i \in 1..Len(block) : ~Unresolvable(block, i)}
         RECURSIVE Pick(_)
         Pick(i) == IF i > Len(block) THEN <<>>
                    ELSE IF i \in keep THEN <<block[i]>> \o Pick(i + 1)
                    ELSE Pick(i + 1)
     IN Pick(1)]

\* a POI without the text of its stack-trace block
PoiEntry(poi) ==
  [function_index_key |-> poi.function_index_key,
   function_contains_vulnerability |-> poi.function_contains_vulnerability]

C9_UnresolvableSkipped ==
  hist.op = "crash" =>
    LET other == parse_poi_from_crash_report(
                   hist.prePois, WithoutUnresolvable(report.body), hashseed)
    IN /\ [n \in 1..Len(pois) |-> PoiEntry(pois[n])]
            = [n \in 1..Len(other.pois) |-> PoiEntry(other.pois[n])]
       /\ block_leaders = other.block_leaders
       /\ block_leaders_call_path = other.call_path

C9_Witness ==
  /\ hist.op = "crash"
  /\ \E b \in 1..Len(report.body) :
       \E i, j \in 1..Len(report.body[b]) :
         /\ i < j
         /\ Unresolvable(report.body[b], i)
         /\ Resolvable(report.body[b], j)
         /\ \E n \in 1..Len(Added) :
              /\ Added[n].function_index_key = FrameKey(report.body[b][j])
              /\ Added[n].backtrace = report.body[b]

(***************************************************************************)
(* C10  Coverage-gap ingestion filter: an entry of the functions list      *)
(* becomes a POI only if its is_reached flag is true (not false, not       *)
(* missing), its source_line_begin and source_line_end are non-zero, and   *)
(* the resolver returns an identity for it.                                *)
(***************************************************************************)
C10_JsonFilter ==
  hist.op = "json" =>
    \A n \in 1..Len(Added) :
      \E i \in 1..Len(report.body) :
        LET e == report.body[i]
            func_index == get_funcindex_from_json("", e.file,
                                                  e.source_line_begin, hashseed)
        IN /\ e.cov = Added[n].runtime_coverage_percent
           /\ e.is_reached = "true"
           /\ e.source_line_begin # 0
           /\ e.source_line_end # 0
           /\ func_index # NoneVal
           /\ func_index = Added[n].function_index_key

C10_Witness ==
  /\ hist.op = "json"
  /\ Len(Added) >= 1
  /\ \E i \in 1..Len(report.body) :
       /\ report.body[i].is_reached = "false"
       /\ report.body[i].source_line_begin # 0
       /\ report.body[i].source_line_end # 0
  /\ \E i \in 1..Len(report.body) : report.body[i].is_reached = "missing"

(***************************************************************************)
(* POI.get_function_index_from_poi.  The store is a black box: its state   *)
(* is what each of its operations answers.                                 *)
(***************************************************************************)
\* an element of candidates that is an empty tuple
EmptyTuple == "()"

RslAnswers ==
  {[raises |-> TRUE, candidates |-> <<>>]}
    \cup {[raises |-> FALSE, candidates |-> c] :
            c \in {<<>>, <<EmptyTuple>>, <<"k1", "k2">>, <<"k2", "k1">>}}

Stores ==
  [find_matching_index : [Queries -> {"raise", NoneVal, "k2"}],
   get : [ResolverKeys \cup Queries -> {"raise", NoneVal, "ok"}],
   resolve_source_location : [Queries -> RslAnswers],
   function_index_to_source_location : {"loc", "raise"}]

StoreCall(op, arg, flags) == [op |-> op, arg |-> arg, flags |-> flags]

FmiCall(function_index_str) ==
  StoreCall("find_matching_index", function_index_str,
            "scope=focus,can_include_self=False,can_include_build_generated=False")

GetCall(key) == StoreCall("get", key, "-")

LocCall(function_index_str) ==
  StoreCall("function_index_to_source_location", function_index_str, "None")

RslCall(function_index_str) ==
  StoreCall("resolve_source_location", function_index_str,
            "num_top_matches=3,allow_build_generated=False,focus_repo_only=True")

Outcome(kind, key, calls) == [kind |-> kind, key |-> key, calls |-> calls]

\* try: find_matching_index(...) except: None
FocusMatch(st, function_index_str) ==
  IF st.find_matching_index[function_index_str] = "raise" THEN NoneVal
  ELSE st.find_matching_index[function_index_str]

\* try: function_resolver.get(key) except: None
GetOrNone(st, key) == IF st.get[key] = "raise" THEN NoneVal ELSE st.get[key]

\* if resolved_function_index_key is not None: ... return resolved_function_index
\* (the debug line reads resolved_function_index.is_generated_during_build)
FromFocus(st, function_index_str, resolved_function_index_key) ==
  LET calls == <<FmiCall(function_index_str), GetCall(resolved_function_index_key)>>
  IN IF GetOrNone(st, resolved_function_index_key) = NoneVal
     THEN Outcome("AttributeError", NoneVal, calls)
     ELSE Outcome("FunctionIndex", resolved_function_index_key, calls)

\* actual_key = candidates[0][0], whatever the seed
TopCandidateBySeed(candidates, seed) ==
  IF seed = "asc" THEN candidates[1] ELSE candidates[Len(candidates)]

\* actual_key = candidates[0][0]
TopCandidate(candidates, seed) == candidates[1]

\* from src_location = function_index_to_source_location(...) to the end
FromLocation(st, function_index_str, seed, before) ==
  LET answer == st.resolve_source_location[function_index_str]
      candidates == IF answer.raises THEN <<>> ELSE answer.candidates
      actual_key == TopCandidate(candidates, seed)
      located == before \o <<LocCall(function_index_str)>>
      searched == located \o <<RslCall(function_index_str)>>
  IN IF st.function_index_to_source_location = "raise"
       THEN Outcome("Exception", NoneVal, located)
     ELSE IF candidates = <<>>
       THEN Outcome("ValueError", NoneVal, searched)
     ELSE IF candidates[1] = EmptyTuple
       THEN Outcome("ValueError", NoneVal, searched)
     ELSE IF GetOrNone(st, actual_key) = NoneVal
       THEN Outcome("None", NoneVal, searched \o <<GetCall(actual_key)>>)
     ELSE Outcome("FunctionIndex", actual_key, searched \o <<GetCall(actual_key)>>)

\* the literal lookup tried before the focus-scoped match
get_function_index_from_poi_literal_first(st, function_index_str, seed) ==
  IF GetOrNone(st, function_index_str) # NoneVal
  THEN Outcome("FunctionIndex", function_index_str,
               <<GetCall(function_index_str)>>)
  ELSE IF FocusMatch(st, function_index_str) # NoneVal
  THEN FromFocus(st, function_index_str, FocusMatch(st, function_index_str))
  ELSE FromLocation(st, function_index_str, seed,
                    <<GetCall(function_index_str), FmiCall(function_index_str)>>)

get_function_index_from_poi(st, function_index_str, seed) ==
  LET resolved_function_index_key == FocusMatch(st, function_index_str)
      calls == <<FmiCall(function_index_str), GetCall(function_index_str)>>
  IN IF resolved_function_index_key # NoneVal
       THEN FromFocus(st, function_index_str, resolved_function_index_key)
     ELSE IF GetOrNone(st, function_index_str) # NoneVal
       THEN Outcome("FunctionIndex", function_index_str, calls)
     ELSE FromLocation(st, function_index_str, seed, calls)

\* one call of get_function_index_from_poi, in a process with hash seed `seed`
Resolve(function_index_str, seed) ==
  LET r == get_function_index_from_poi(store, function_index_str, seed)
  IN /\ resolution' = [query |-> function_index_str, kind |-> r.kind,
                       key |-> r.key, calls |-> r.calls]
     /\ observed' = [observed EXCEPT ![function_index_str] =
                       @ \cup {<<r.kind, r.key, seed>>}]
     /\ UNCHANGED <<store, poiVars, analyzerVars, mainVars>>

ResolveReports ==
  Tagged("json", {<<ReachedEntry>>})

InitResolve ==
  /\ InitPoi(ResolveReports, {"asc"})
  /\ store \in Stores
  /\ resolution = NoResolution
  /\ observed = [q \in Queries |-> {}]
  /\ AnalyzerIdle
  /\ MainIdle

NextResolve ==
  \E function_index_str \in Queries, seed \in HashSeeds :
    Resolve(function_index_str, seed)

SpecResolve == InitResolve /\ [][NextResolve]_vars

C12_TwoOutcomes ==
  (/\ resolution.kind # "-"
   /\ store.function_index_to_source_location = "loc") =>
    resolution.kind \in {"FunctionIndex", "ValueError"}

(***************************************************************************)
(* C13  The steps are tried in a fixed order and the first match wins: the *)
(* focus-scoped find_matching_index first, its result returned without a   *)
(* later step being consulted; else the string as a literal key; else the  *)
(* location search, whose top-ranked candidate is returned.                *)
(***************************************************************************)
C13_StepOrder ==
  resolution.kind # "-" =>
    LET q == resolution.query
        focus == store.find_matching_index[q]
        focusHit == focus \notin {"raise", NoneVal}
        literalHit == store.get[q] = "ok"
        top == store.resolve_source_location[q].candidates[1]
    IN /\ resolution.calls[1] = FmiCall(q)
       /\ focusHit =>
            /\ resolution.calls = <<FmiCall(q), GetCall(focus)>>
            /\ resolution.kind = "FunctionIndex" => resolution.key = focus
       /\ (~focusHit /\ literalHit) =>
            /\ resolution.calls = <<FmiCall(q), GetCall(q)>>
            /\ resolution.kind = "FunctionIndex"
            /\ resolution.key = q
       /\ (~focusHit /\ ~literalHit) =>
            /\ SubSeq(resolution.calls, 1, 3) = <<FmiCall(q), GetCall(q), LocCall(q)>>
            /\ resolution.kind = "FunctionIndex" =>
                 /\ resolution.key = top
                 /\ resolution.calls = <<FmiCall(q), GetCall(q), LocCall(q),
                                         RslCall(q), GetCall(top)>>

C13_Witness ==
  /\ resolution.kind = "FunctionIndex"
  /\ resolution.query = "k1"
  /\ resolution.key = "k2"
  /\ store.find_matching_index["k1"] = "k2"
  /\ store.get["k1"] = "ok"
  /\ ~store.resolve_source_location["k1"].raises
  /\ store.resolve_source_location["k1"].candidates = <<"k1", "k2">>

(***************************************************************************)
(* The analyzer jobs of POI.analyze_harness_binaries.                      *)
(***************************************************************************)
\* what the analyzer process does on one binary
ToolRuns == {"ok", "exit_error", "timeout", "no_output"}

JobGraphs == { {<<LLVM, "a">>}, {<<MAIN, "a">>, <<"a", "b">>} }

JobRuns == [tool : ToolRuns, cg : JobGraphs]

Environs == [IDA_PATH : BOOLEAN, idat64 : BOOLEAN]

\* how a job ended: kind is "path", "None" or "raise"
JobEnd(kind, exc, analyzers) ==
  [kind |-> kind, exc |-> exc, analyzers |-> analyzers]

run_idascript(env, job) ==
  IF ~env.IDA_PATH THEN JobEnd("raise", "ValueError", <<"ida">>)
  ELSE IF ~env.idat64 THEN JobEnd("raise", "AssertionError", <<"ida">>)
  ELSE IF job.tool \in {"exit_error", "timeout"} THEN JobEnd("None", NoneVal, <<"ida">>)
  ELSE IF job.tool = "no_output" THEN JobEnd("raise", "AssertionError", <<"ida">>)
  ELSE JobEnd("path", NoneVal, <<"ida">>)

\* cmd reads ANGR_SCRIPT, a name the module does not define
run_angrscript(env, job) == JobEnd("raise", "NameError", <<"ida", "angr">>)

_parallel_process_harness_file(env, job) ==
  LET yaml_file == run_idascript(env, job)
  IN IF yaml_file.kind = "raise" /\ yaml_file.exc = "ValueError"
     THEN run_angrscript(env, job)
     ELSE yaml_file

\* the orders as_completed can yield the futures in
CompletionOrders ==
  {o \in [1..Cardinality(Harnesses) -> Harnesses] : IsDistinct(o)}

\* if self.harness_cfg, never true
CacheHitNever(cfg) == FALSE

\* if self.harness_cfg
CacheHit(cfg) == cfg # <<>>

\* the futures consumed before future.result() raises
Consumed(order, ends) ==
  LET bad == {i \in 1..Len(order) : ends[order[i]].kind = "raise"}
      stop == IF bad = {} THEN Len(order) + 1
              ELSE CHOOSE i \in bad : \A j \in bad : i <= j
  IN SubSeq(order, 1, stop - 1)

\* POI.analyze_harness_binaries with its jobs: runs is what the analyzer does
\* on each binary, order the order the futures complete in
AnalyzeBatch(order, runs) ==
  LET ends == [h \in Harnesses |-> _parallel_process_harness_file(environ, runs[h])]
      consumed == Consumed(order, ends)
      results == [i \in 1..Len(consumed) |->
                    [name |-> consumed[i],
                     ok |-> ends[consumed[i]].kind = "path",
                     cg |-> runs[consumed[i]].cg]]
      raised == Len(consumed) < Len(order)
  IN /\ ~InProgress
     /\ leaked = <<>>
     /\ IF CacheHit(harness_cfg)
        THEN /\ harness_cfg' = harness_cfg
             /\ analysis' = [NoAnalysis EXCEPT !.state = "returned",
                                               !.before = harness_cfg]
        ELSE /\ harness_cfg' = AssignGraphs(results)
             /\ analysis' =
                  [state |-> IF raised THEN "raised" ELSE "returned",
                   exc |-> IF raised THEN ends[order[Len(consumed) + 1]].exc
                           ELSE NoneVal,
                   jobs |-> ends,
                   before |-> harness_cfg]
     /\ UNCHANGED <<report, hashseed, pois, has_block_leaders, block_leaders,
                    block_leaders_call_path, engineVars, hist, environ,
                    resolverVars, mainVars>>

\* POI.__init__ with callgraph_json: the cache starts with the graphs of the file
PreloadedCaches ==
  {<<>>} \cup {<<[name |-> "h1", cg |-> g]>> : g \in JobGraphs}

InitAnalyze ==
  /\ report \in ResolveReports
  /\ hashseed = "asc"
  /\ pois = <<>>
  /\ has_block_leaders = FALSE
  /\ block_leaders = <<>>
  /\ block_leaders_call_path = <<>>
  /\ harness_cfg \in PreloadedCaches
  /\ call = NoCall
  /\ thread = NoThread
  /\ leaked = <<>>
  /\ ncalls = 0
  /\ hist = [op |-> "init", prePois |-> <<>>]
  /\ environ \in Environs
  /\ analysis = NoAnalysis
  /\ ResolverIdle
  /\ MainIdle

NextAnalyze ==
  \/ \E order \in CompletionOrders, runs \in [Harnesses -> JobRuns] :
       AnalyzeBatch(order, runs)
  \/ \E sink_funcname \in {"a", "b"} : GetCallPathTo(sink_funcname)
  \/ ThreadStart
  \/ WorkerStep
  \/ JoinReturns
  \/ JoinTimesOut
  \/ \E i \in 1..MaxCalls : LeakedStep(i)

SpecAnalyze == InitAnalyze /\ [][NextAnalyze]_vars

CacheNames(cfg) == {cfg[i].name : i \in 1..Len(cfg)}

(***************************************************************************)
(* C14  The call graphs are built at most once: analyze_harness_binaries   *)
(* starts no job and writes no slot when the cache already holds a graph,  *)
(* and through any sequence of analyze_harness_binaries and                *)
(* get_call_path_to calls an assigned slot keeps its first graph.          *)
(***************************************************************************)
C14_BuiltOnce ==
  [][/\ \A i \in 1..Len(harness_cfg) :
          i <= Len(harness_cfg') /\ harness_cfg'[i] = harness_cfg[i]
     /\ (harness_cfg # <<>> /\ analysis' # analysis) =>
          /\ harness_cfg' = harness_cfg
          /\ analysis'.state = "returned"
          /\ \A h \in Harnesses : analysis'.jobs[h] = NotStarted]_vars

C14_Witness ==
  /\ analysis.state = "returned"
  /\ analysis.before # <<>>
  /\ analysis.before = harness_cfg
  /\ Len(harness_cfg) = 2
  /\ call.state = "COMPLETED"
  /\ call.cache = harness_cfg

(***************************************************************************)
(* C15  Analyzer-failure isolation: when the analysis of a harness fails   *)
(* (tool exit error, timeout, missing output file, missing IDA             *)
(* executable), analyze_harness_binaries leaves that harness out of the    *)
(* cache, assigns the graph of every harness whose analysis succeeded, and *)
(* returns without raising.                                                *)
(***************************************************************************)
C15_FailureIsolation ==
  (analysis.state # "idle" /\ analysis.before = <<>> /\ environ.IDA_PATH) =>
    /\ analysis.state = "returned"
    /\ CacheNames(harness_cfg) = {h \in Harnesses : analysis.jobs[h].kind = "path"}

(***************************************************************************)
(* C16  Primary and fallback analyzer: IDA is attempted first for each     *)
(* binary; with IDA_PATH unset the job falls back to angr and still ends   *)
(* with a call-graph YAML path or with the per-harness failure None.       *)
(***************************************************************************)
C16_AngrFallback ==
  \A h \in Harnesses :
    analysis.jobs[h] # NotStarted =>
      /\ analysis.jobs[h].analyzers[1] = "ida"
      /\ ~environ.IDA_PATH =>
           /\ analysis.jobs[h].analyzers = <<"ida", "angr">>
           /\ analysis.jobs[h].kind \in {"path", "None"}

(***************************************************************************)
(* main.py: main() and the retry loop of __main__.                         *)
(***************************************************************************)
\* if ctr == 10
MaxAttempts == 10

\* what worker_function returns for one POI: None, or the patch for a
\* function at function_line_number of filename; patch_ok tells whether
\* apply_llm_response and the write succeed when main applies it
NoneResult ==
  [ok |-> FALSE, filename |-> "-", function_line_number |-> 0, patch_ok |-> FALSE]

WorkerOutcomes ==
  {NoneResult}
    \cup [ok : {TRUE}, filename : {"f.c"}, function_line_number : {1, 5},
          patch_ok : BOOLEAN]

RECURSIVE InsertDescending(_, _)
\* r goes after every element whose line number is not smaller (stable)
InsertDescending(sorted, r) ==
  IF sorted = <<>> THEN <<r>>
  ELSE IF Head(sorted).function_line_number >= r.function_line_number
       THEN <<Head(sorted)>> \o InsertDescending(Tail(sorted), r)
       ELSE <<r>> \o sorted

RECURSIVE SortedUpTo(_, _)
SortedUpTo(rs, n) ==
  IF n = 0 THEN <<>> ELSE InsertDescending(SortedUpTo(rs, n - 1), rs[n])

\* (r for r in results if r), in the order of the results
UnsortedResults(results) == SelectSeq(results, LAMBDA r : r.ok)

\* sorted((r for r in results if r), key=lambda x: -x["function_line_number"])
SortedResults(results) ==
  LET given == SelectSeq(results, LAMBDA r : r.ok)
  IN SortedUpTo(given, Len(given))

\* the for loop over the sorted results: a patch that fails is skipped
ApplyPatches(results) ==
  SelectSeq(SortedResults(results), LAMBDA r : r.patch_ok)

\* poi_obj.add_poi(report_path), by the class main.py built
AddPoi(pois_, rep, seed) ==
  IF rep.kind = "crash"
  THEN parse_poi_from_crash_report(pois_, rep.body, seed)
  ELSE [pois |-> IF rep.kind = "json"
                 THEN parse_poi_from_optimal_targets(pois_, rep.body, seed)
                 ELSE parse_poi_from_codeql_report(pois_, rep.body, seed),
        block_leaders |-> block_leaders,
        call_path |-> block_leaders_call_path]

\* if ctr == 11
LoopExhaustedLate(c) == c = MaxAttempts + 1

\* if ctr == 10
LoopExhausted(c) == c = MaxAttempts

Running == run.state \in {"idle", "looping"}

\* if ctr == 10: raise RuntimeError
RetryGivesUp ==
  /\ Running
  /\ LoopExhausted(ctr)
  /\ run' = [run EXCEPT !.state = "failed", !.exc = "RuntimeError: failed 10 times"]
  /\ UNCHANGED <<poiVars, resolverVars, analyzerVars, ctr, worker_results, applied>>

\* pool.starmap(worker_function, ...): one result for each POI, in the order
\* of the catalog
WorkerResults(catalog) == [1..Len(catalog) -> WorkerOutcomes]

\* main() with the workers returning results
MainCall(st, results) ==
  LET patched == ApplyPatches(results)
  IN /\ Running
     /\ ~LoopExhausted(ctr)
     /\ ~InProgress
     /\ block_leaders' = st.block_leaders
     /\ block_leaders_call_path' = st.call_path
     /\ has_block_leaders' = (has_block_leaders \/ report.kind = "crash")
     /\ hist' = [op |-> "main", prePois |-> pois]
     /\ IF st.pois = <<>>
        THEN \* poi_obj.empty: ValueError, re-raised as RuntimeError
             /\ run' = [state |-> "failed", attempts |-> run.attempts + 1,
                        exc |-> "RuntimeError: no POIs were found"]
             /\ pois' = st.pois
             /\ UNCHANGED <<ctr, worker_results, applied>>
        ELSE /\ worker_results' = results
             /\ applied' = patched
             /\ IF patched # <<>>
                THEN \* len(allow_list_funcs) > 0: break
                     /\ run' = [state |-> "succeeded",
                                attempts |-> run.attempts + 1, exc |-> NoneVal]
                     /\ pois' = st.pois
                     /\ ctr' = ctr
                ELSE \* remove_all_pois, sleep, ctr += 1
                     /\ run' = [state |-> "looping",
                                attempts |-> run.attempts + 1, exc |-> NoneVal]
                     /\ pois' = <<>>
                     /\ ctr' = ctr + 1
     /\ UNCHANGED <<report, hashseed, harness_cfg, engineVars, resolverVars,
                    analyzerVars>>

\* one iteration of the while loop that calls main()
RetryIteration ==
  LET st == AddPoi(pois, report, hashseed)
  IN \E results \in WorkerResults(st.pois) : MainCall(st, results)

MainReports ==
  { [kind |-> "json",
     body |-> << [is_reached |-> "false", file |-> "f.c", source_line_begin |-> 1,
                  source_line_end |-> 5, cov |-> 3] >>],
    [kind |-> "json",
     body |-> <<ReachedEntry,
                [is_reached |-> "true", file |-> "f.c", source_line_begin |-> 3,
                 source_line_end |-> 4, cov |-> 2],
                ReachedEntry>>],
    [kind |-> "crash",
     body |-> << << [func |-> "a", file |-> "f.c", line |-> 1, col |-> TRUE],
                    [func |-> "ab", file |-> "g.c", line |-> 10, col |-> TRUE] >> >>],
    [kind |-> "crash",
     body |-> << << [func |-> "c", file |-> "g.c", line |-> 1, col |-> TRUE] >> >>] }

InitMain ==
  /\ InitPoi(MainReports, HashSeeds)
  /\ ResolverIdle
  /\ AnalyzerIdle
  /\ MainIdle

NextMain ==
  \/ RetryGivesUp
  \/ RetryIteration

SpecMain == InitMain /\ [][NextMain]_vars

TerminalRun == run.state \in {"succeeded", "failed"}

\* C17: the retry loop ends: every iteration is one more call of main(),
\* there are at most 10 of them, the loop stops at the first call whose
\* allowlist is not empty, goes on only after an empty one, and after 10
\* calls with an empty allowlist the run fails
C17_RetryTerminates ==
  [][/\ run'.attempts <= MaxAttempts
     /\ TerminalRun => run' = run
     /\ run' # run =>
          \/ /\ ctr < MaxAttempts
             /\ run'.attempts = run.attempts + 1
             /\ applied' # <<>> => run'.state = "succeeded"
             /\ run'.state = "succeeded" => applied' # <<>>
             /\ run'.state = "looping" =>
                  applied' = <<>> /\ ctr' = ctr + 1 /\ ctr' = run'.attempts
          \/ /\ ctr = MaxAttempts
             /\ run'.state = "failed"
             /\ run'.attempts = MaxAttempts]_vars

C17_Witness ==
  /\ run.state = "failed"
  /\ run.attempts = MaxAttempts
  /\ ctr = MaxAttempts
  /\ worker_results # <<>>

\* C18: an attempt that finds an empty catalog is retried: the run fails
\* only once the 10 attempts are used up
C18_EmptyCatalogRetried == run.state = "failed" => run.attempts = MaxAttempts

Positions(s, r) == {i \in 1..Len(s) : s[i] = r}

\* C19: the patches main applies are the worker results that could be
\* applied, in descending function line number, whatever the order of the
\* results
C19_DescendingPatches ==
  run.attempts > 0 =>
    /\ \A i, j \in 1..Len(applied) :
         i < j => applied[i].function_line_number >= applied[j].function_line_number
    /\ \A r \in WorkerOutcomes :
         Cardinality(Positions(applied, r))
           = IF r.ok /\ r.patch_ok
             THEN Cardinality(Positions(worker_results, r)) ELSE 0

C19_Witness ==
  /\ run.state = "succeeded"
  /\ Len(applied) >= 2
  /\ \E i, j \in 1..Len(worker_results) :
       /\ i < j
       /\ worker_results[i].patch_ok /\ worker_results[j].patch_ok
       /\ worker_results[i].filename = worker_results[j].filename
       /\ worker_results[i].function_line_number
            < worker_results[j].function_line_number

(***************************************************************************)
(* The timed call-path computation next to the catalog: an OSS-Fuzz object *)
(* whose cache was preloaded, its report added between the calls.          *)
(***************************************************************************)
PathCaches ==
  {<<>>}
    \cup {<<[name |-> "h1", cg |-> g]>> : g \in JobGraphs}
    \cup {<<[name |-> "h1", cg |-> g1], [name |-> "h2", cg |-> g2]>> :
            g1 \in JobGraphs, g2 \in JobGraphs}

InitPaths ==
  /\ report \in ResolveReports
  /\ hashseed = "asc"
  /\ pois = <<>>
  /\ has_block_leaders = FALSE
  /\ block_leaders = <<>>
  /\ block_leaders_call_path = <<>>
  /\ harness_cfg \in PathCaches
  /\ call = NoCall
  /\ thread = NoThread
  /\ leaked = <<>>
  /\ ncalls = 0
  /\ hist = [op |-> "init", prePois |-> <<>>]
  /\ ResolverIdle
  /\ AnalyzerIdle
  /\ MainIdle

NextPaths ==
  \/ pois = <<>> /\ JsonAddPoi
  \/ \E sink_funcname \in {"a", "b", "ab"} : GetCallPathTo(sink_funcname)
  \/ ThreadStart
  \/ WorkerStep
  \/ JoinReturns
  \/ JoinTimesOut
  \/ \E i \in 1..MaxCalls : LeakedStep(i)

SpecPaths == InitPaths /\ [][NextPaths]_vars

\* a step of get_call_path_to, of its thread or of an abandoned thread
PathStep == call' # call \/ thread' # thread \/ leaked' # leaked

worker_function(st, key, seed, result) ==
  LET r == get_function_index_from_poi(st, key, seed)
  IN IF r.kind = "ValueError"
       THEN \* except ValueError: return
            [resolved |-> r.kind, raised |-> NoneVal, result |-> NoneResult]
     ELSE IF r.kind = "FunctionIndex"
       THEN [resolved |-> r.kind, raised |-> NoneVal, result |-> result]
     ELSE IF r.kind = "None"
       THEN \* resolved_sinkfunc_index.funcname on None
            [resolved |-> r.kind, raised |-> "AttributeError", result |-> NoneResult]
     ELSE [resolved |-> r.kind, raised |-> r.kind, result |-> NoneResult]

\* main() from the pool to the allowlist: pool.starmap re-raises the
\* exception of a worker, and nothing in main or the loop catches it
MainBatch(keys, instrumented) ==
  LET ends == [i \in 1..Len(keys) |->
                 worker_function(store, keys[i], hashseed, instrumented[i])]
      raising == {i \in 1..Len(keys) : ends[i].raised # NoneVal}
      first == CHOOSE i \in raising : \A j \in raising : i <= j
      results == [i \in 1..Len(keys) |-> ends[i].result]
  IN /\ run.state = "idle"
     /\ observed' = [q \in Queries |->
                       {<<ends[i].resolved, i, hashseed>> :
                          i \in {j \in 1..Len(keys) : keys[j] = q}}]
     /\ IF raising # {}
        THEN /\ run' = [state |-> "failed", attempts |-> 1,
                        exc |-> ends[first].raised]
             /\ UNCHANGED <<worker_results, applied>>
        ELSE /\ worker_results' = results
             /\ applied' = ApplyPatches(results)
             /\ run' = [state |-> IF applied' # <<>> THEN "succeeded" ELSE "looping",
                        attempts |-> 1, exc |-> NoneVal]
     /\ UNCHANGED <<poiVars, store, resolution, analyzerVars, ctr>>

\* keys: the function_index_key of the POIs of the batch, in catalog order
NextBatch ==
  \E keys \in {<<"k1", "q">>, <<"q", "k1">>, <<"q", "q">>} :
    \E instrumented \in [1..Len(keys) -> WorkerOutcomes] :
      MainBatch(keys, instrumented)

SpecBatch == InitResolve /\ [][NextBatch]_vars

\* C21: a POI the resolver cannot map to a function is skipped and the batch
\* goes on: its worker gives no result, no exception ends the batch, and
\* every worker of the batch has its result in the results main aggregates
C21_ResolutionFailureSkipped ==
  (/\ run.attempts > 0
   /\ store.function_index_to_source_location = "loc"
   /\ \E q \in Queries : \E o \in observed[q] : o[1] # "FunctionIndex") =>
    /\ run.exc = NoneVal
    /\ \A q \in Queries : \A o \in observed[q] :
         /\ o[2] \in DOMAIN worker_results
         /\ o[1] # "FunctionIndex" => worker_results[o[2]] = NoneResult

\* C28: when the focus-scoped match and the literal lookup both fail, the
\* resolver first asks the store for the by-filename and the by-range
\* candidates of the derived location and narrows their intersection; the
\* location-similarity search comes only after that step
C28_IntersectionBeforeSearch ==
  \A i \in 1..Len(resolution.calls) :
    resolution.calls[i].op = "resolve_source_location" =>
      \E j \in 1..(i - 1) :
        resolution.calls[j].op \in {"find_by_filename", "find_matching_indices"}

(***************************************************************************)
(* The predecessor fallback: one cached graph out of a family with cycles, *)
(* with and without the entry nodes.                                       *)
(***************************************************************************)
InitFallback ==
  /\ report \in ResolveReports
  /\ hashseed = "asc"
  /\ pois = <<>>
  /\ has_block_leaders = FALSE
  /\ block_leaders = <<>>
  /\ block_leaders_call_path = <<>>
  /\ harness_cfg \in
       {<<[name |-> "h1", cg |-> g]>> :
          g \in SUBSET { <<"a", "b">>, <<"b", "a">>, <<"ab", "a">>, <<"b", "ab">>,
                         <<MAIN, "a">>, <<LLVM, "ab">> }}
  /\ call = NoCall
  /\ thread = NoThread
  /\ leaked = <<>>
  /\ ncalls = 0
  /\ hist = [op |-> "init", prePois |-> <<>>]
  /\ ResolverIdle
  /\ AnalyzerIdle
  /\ MainIdle

SpecFallback == InitFallback /\ [][NextPaths]_vars

\* the transitive callers of sink: the nodes from which one or more edges
\* lead to it
Ancestors(cg, sink) ==
  {n \in Nodes(cg) : sink \in ReachFrom(cg, Successors(cg, n))}

\* C22: a harness graph contributes find_longest_paths(graph, sink) exactly
\* when it holds neither LLVMFuzzerTestOneInput nor main; that walk ends on
\* every graph, cycles included, and gives one path whose names are the sink
\* and all its transitive callers, only the sink when it is no node; the walk
\* expands no node twice
C22_PredecessorFallback ==
  (call.state = "COMPLETED" /\ Len(call.cache) = 1) =>
    LET cg == call.cache[1].cg
        sink == call.sink
        entry == LLVM \in Nodes(cg) \/ MAIN \in Nodes(cg)
    IN /\ Len(find_longest_paths(cg, sink)) = 1
       /\ Range(find_longest_paths(cg, sink)[1])
            = IF sink \in Nodes(cg) THEN {sink} \cup Ancestors(cg, sink)
              ELSE {sink}
       /\ sink \in Nodes(cg) => IsDistinct(WalkFromSink(cg, sink).popped)
       /\ ~entry =>
            Range(call.result) = Range(find_longest_paths(cg, sink)[1])
       /\ entry =>
            Range(call.result)
              = {sink} \cup Range(Flatten(all_simple_paths(cg, start_node(cg), sink)))

C22_Witness ==
  /\ call.state = "COMPLETED"
  /\ Len(call.cache) = 1
  /\ call.cache[1].cg = {<<"a", "b">>, <<"b", "a">>, <<"ab", "a">>, <<"b", "ab">>}
  /\ call.sink = "a"
  /\ Range(call.result) = {"a", "b", "ab"}

(***************************************************************************)
(* The by-location resolver as the parsers call it.                        *)
(***************************************************************************)
\* add_poi as main drives it: one call on the collection as constructed
\* (main.py 237, after 400 or 408)
NextLocate ==
  \/ pois = <<>> /\ hist.op = "init" /\ CrashAddPoi
  \/ pois = <<>> /\ hist.op = "init" /\ JsonAddPoi

SpecLocate ==
  InitWith(Tagged("crash", CrashReports(MaxItems))
             \cup Tagged("json", JsonReports(MaxItems)), HashSeeds)
    /\ [][NextLocate]_vars

\* the (file, line) pairs the last add_poi asked the resolver about
Queried ==
  IF hist.op = "crash"
  THEN UNION {{<<report.body[b][i].file, report.body[b][i].line>> :
                 i \in {j \in Walked(report.body[b]) : report.body[b][j].col}}
              : b \in 1..Len(report.body)}
  ELSE IF hist.op = "json"
  THEN {<<report.body[i].file, report.body[i].source_line_begin>> :
          i \in {j \in 1..Len(report.body) :
                   /\ report.body[j].is_reached = "true"
                   /\ report.body[j].source_line_begin # 0
                   /\ report.body[j].source_line_end # 0}}
  ELSE {}

\* the identities that pass every test for the query
Survivors(file_path, line_number) ==
  {k \in Keys :
     /\ \E i \in 1..Len(find_by_filename(file_path)) :
          find_by_filename(file_path)[i] = k
     /\ Entry(k).indexed
     /\ Entry(k).start_line <= line_number
     /\ line_number <= Entry(k).end_line
     /\ Entry(k).keypath = file_path
     /\ Entry(k).focus = k}

\* C23: the by-location resolver returns an identity only if it is found by
\* filename for the queried file, its line range contains the queried line,
\* its key contains the queried file path and it is in the focus scope; it
\* returns None exactly when no identity passes; the POIs added carry only
\* such identities
C23_ByLocation ==
  hist.op \in {"crash", "json"} =>
    /\ \A q \in Queried :
         LET r == IF hist.op = "crash"
                  THEN get_funcindex_from_backtrace("", q[1], q[2], hashseed)
                  ELSE get_funcindex_from_json("", q[1], q[2], hashseed)
         IN /\ r = NoneVal <=> Survivors(q[1], q[2]) = {}
            /\ r # NoneVal => r \in Survivors(q[1], q[2])
    /\ \A n \in 1..Len(Added) :
         \E q \in Queried : Added[n].function_index_key \in Survivors(q[1], q[2])

C23_Witness ==
  /\ hist.op = "crash"
  /\ hashseed = "desc"
  /\ <<"f.c", 1>> \in Queried
  /\ <<"g.c", 1>> \in Queried
  /\ <<"g.c", 10>> \in Queried
  /\ Range(PoiKeys(Added)) = {"k1", "k4"}

\* C24: when several identities pass for one query, the resolver returns the
\* first of them in the store's order, whatever the process
C24_FirstInStoreOrder ==
  hist.op \in {"crash", "json"} =>
    \A q \in Queried :
      LET S == Survivors(q[1], q[2])
      IN S # {} =>
           get_funcindex(q[1], q[2], hashseed)
             = CHOOSE k \in S : \A o \in S : KeyRank(k) <= KeyRank(o)

(***************************************************************************)
(* The frame walk of one crash report.                                     *)
(***************************************************************************)
\* the frames of a block before its first frame of LLVMFuzzerTestOneInput or
\* __libc_start_main
BeforeEntry(block) ==
  LET stops == {i \in 1..Len(block) : block[i].func \in {LLVM, LIBC}}
      first == IF stops = {} THEN Len(block) + 1
               ELSE CHOOSE i \in stops : \A j \in stops : i <= j
  IN SubSeq(block, 1, first - 1)

\* C25: in each block the walk ends at the first frame of
\* LLVMFuzzerTestOneInput or __libc_start_main: that frame and the frames
\* after it give no POI and no call-path entry, and the blocks after it are
\* walked as before
C25_StopAtEntry ==
  hist.op = "crash" =>
    LET cut == [b \in 1..Len(report.body) |-> BeforeEntry(report.body[b])]
        other == parse_poi_from_crash_report(hist.prePois, cut, hashseed)
    IN /\ [n \in 1..Len(pois) |-> PoiEntry(pois[n])]
            = [n \in 1..Len(other.pois) |-> PoiEntry(other.pois[n])]
       /\ block_leaders = other.block_leaders
       /\ block_leaders_call_path = other.call_path

C25_Witness ==
  /\ hist.op = "crash"
  /\ Len(report.body) = 2
  /\ report.body[1] = << [func |-> LIBC, file |-> "h.c", line |-> 1, col |-> TRUE],
                         [func |-> "a", file |-> "f.c", line |-> 1, col |-> TRUE] >>
  /\ report.body[2] = << [func |-> "ab", file |-> "g.c", line |-> 10, col |-> TRUE] >>
  /\ PoiKeys(Added) = <<"k4">>

\* the first frame of the report, in block and frame order, that the
\* resolver returns an identity for
FirstOccurrence ==
  CHOOSE o \in CrashOccurrences :
    \A x \in CrashOccurrences : o[1] < x[1] \/ (o[1] = x[1] /\ o[2] <= x[2])

\* C26: after one add_poi of a crash report on an empty catalog that adds a
\* POI, exactly the first POI of the catalog has
\* function_contains_vulnerability True, and it is the POI of the first
\* resolved frame of the report
C26_VulnerabilityLeader ==
  (hist.op = "crash" /\ hist.prePois = <<>> /\ pois # <<>>) =>
    /\ pois[1].function_contains_vulnerability = "True"
    /\ \A n \in 2..Len(pois) : pois[n].function_contains_vulnerability = "False"
    /\ pois[1].function_index_key = OccurrenceKey(FirstOccurrence)
    /\ pois[1].backtrace = report.body[FirstOccurrence[1]]

C26_Witness ==
  /\ hist.op = "crash"
  /\ hist.prePois = <<>>
  /\ Len(pois) = 2
  /\ Len(report.body) = 2
  /\ FirstOccurrence[2] > 1
  /\ pois[2].backtrace = report.body[2]

(***************************************************************************)
(* CrashPOI: one add_poi, then the call-path queries of the workers.  Two  *)
(* functions of the store have the name a, one in f.c and one in g.c.      *)
(***************************************************************************)
InitLeaders ==
  /\ report \in
       LET frames ==
             { [func |-> "a", file |-> "f.c", line |-> 1, col |-> TRUE],
               [func |-> "b", file |-> "f.c", line |-> 3, col |-> TRUE],
               [func |-> "ab", file |-> "g.c", line |-> 10, col |-> TRUE],
               [func |-> "a", file |-> "g.c", line |-> 20, col |-> TRUE] }
       IN Tagged("crash", UNION {Splits(s) : s \in SeqsUpTo(frames, MaxItems)})
  /\ hashseed \in HashSeeds
  /\ pois = <<>>
  /\ has_block_leaders = FALSE
  /\ block_leaders = <<>>
  /\ block_leaders_call_path = <<>>
  /\ harness_cfg \in {<<>>, <<[name |-> "h1", cg |-> {<<MAIN, "a">>}]>>,
                      <<[name |-> "h1", cg |-> {<<LLVM, "a">>}]>>}
  /\ call = NoCall
  /\ thread = NoThread
  /\ leaked = <<>>
  /\ ncalls = 0
  /\ hist = [op |-> "init", prePois |-> <<>>]
  /\ ResolverIdle
  /\ AnalyzerIdle
  /\ MainIdle

NextLeaders ==
  \/ hist.op = "init" /\ CrashAddPoi
  \/ \E sink_funcname \in FuncNames :
       hist.op = "crash" /\ CrashGetCallPathTo(sink_funcname)

SpecLeaders == InitLeaders /\ [][NextLeaders]_vars

\* the POIs whose frames were newly resolved in the block, in frame order
NewInBlock(block) == SelectSeq(pois, LAMBDA poi : poi.backtrace = block)

\* C27: the first newly resolved function of a block is its leader;
\* get_call_path_to(leader) is the leader and then the names of the later
\* newly resolved functions of that block, in frame order; for any other
\* function it is that function alone; "main" comes first only when the one
\* cached graph has main and no LLVMFuzzerTestOneInput
C27_LeaderSuffix ==
  (hist.op = "crash" /\ call.state = "COMPLETED") =>
    LET only == call.cache[1].cg
        prefix == IF /\ Len(call.cache) = 1
                     /\ LLVM \notin Nodes(only)
                     /\ MAIN \in Nodes(only)
                  THEN <<MAIN>> ELSE <<>>
        led == {b \in 1..Len(report.body) :
                  /\ NewInBlock(report.body[b]) # <<>>
                  /\ get(NewInBlock(report.body[b])[1].function_index_key).funcname
                       = call.sink}
    IN /\ \A b \in led :
            call.result
              = prefix \o [n \in 1..Len(NewInBlock(report.body[b])) |->
                             get(NewInBlock(report.body[b])[n].function_index_key).funcname]
       /\ led = {} => call.result = prefix \o <<call.sink>>

(***************************************************************************)
(* POI.gen_callgraph_from_file: the graph built from an analyzer output, a *)
(* YAML mapping from a caller to the list of its callees.  Here the graph  *)
(* keeps its node set next to its edge set.                                *)
(***************************************************************************)
\* the mappings of at most two callers, in file order
YamlObjects ==
  LET lists == {<<>>, <<"a">>, <<"b">>, <<"a", "b">>}
      items == [caller : {LLVM, "a", "b"}, callees : lists]
  IN {obj \in SeqsUpTo(items, 2) :
        \A i, j \in 1..Len(obj) : obj[i].caller = obj[j].caller => i = j}

\* nx.DiGraph.add_edge(u, v): both ends become nodes
add_edge(callgraph, u, v) ==
  [nodes |-> callgraph.nodes \cup {u, v},
   edges |-> callgraph.edges \cup {<<u, v>>}]

RECURSIVE add_edges(_, _)
\* for key in obj: for value in obj[key]: callgraph.add_edge(key, value)
add_edges(callgraph, pairs) ==
  IF pairs = <<>> THEN callgraph
  ELSE add_edges(add_edge(callgraph, Head(pairs)[1], Head(pairs)[2]), Tail(pairs))

\* a graph that also gets every key of the mapping as a node
gen_callgraph_with_callers(obj) ==
  LET g == add_edges([nodes |-> {}, edges |-> {}],
                     Flatten([i \in 1..Len(obj) |->
                                [j \in 1..Len(obj[i].callees) |->
                                   <<obj[i].caller, obj[i].callees[j]>>]]))
  IN [g EXCEPT !.nodes = @ \cup {obj[i].caller : i \in 1..Len(obj)}]

gen_callgraph_from_file(obj) ==
  add_edges([nodes |-> {}, edges |-> {}],
            Flatten([i \in 1..Len(obj) |->
                       [j \in 1..Len(obj[i].callees) |->
                          <<obj[i].caller, obj[i].callees[j]>>]]))

\* self.harness_cfg[harness_name] = POI.gen_callgraph_from_file(yaml_file);
\* the entry keeps the file's mapping and the node set of the graph
LoadCallgraph(harness_name, obj) ==
  /\ ~InProgress
  /\ \A i \in 1..Len(harness_cfg) : harness_cfg[i].name # harness_name
  /\ harness_cfg' = Append(harness_cfg,
                           [name |-> harness_name,
                            cg |-> gen_callgraph_from_file(obj).edges,
                            nodes |-> gen_callgraph_from_file(obj).nodes,
                            yaml |-> obj])
  /\ UNCHANGED <<outerVars, report, hashseed, pois, has_block_leaders, block_leaders,
                 block_leaders_call_path, engineVars, hist>>

NextGraph ==
  \E harness_name \in Harnesses, obj \in YamlObjects :
    LoadCallgraph(harness_name, obj)

SpecGraph == InitWith(ResolveReports, {"asc"}) /\ [][NextGraph]_vars

\* the caller -> callee pairs a mapping lists
YamlPairs(obj) ==
  UNION {{<<obj[i].caller, obj[i].callees[j]>> : j \in 1..Len(obj[i].callees)}
         : i \in 1..Len(obj)}

\* C29: the nodes of the graph built from an analyzer output are the names
\* that occur in a caller -> callee pair and its edges are those pairs; a
\* caller with an empty callee list that nobody calls is no node
C29_GraphFromEdgeList ==
  \A n \in 1..Len(harness_cfg) :
    LET e == harness_cfg[n]
        pairs == YamlPairs(e.yaml)
    IN /\ e.cg = pairs
       /\ e.nodes = {p[1] : p \in pairs} \cup {p[2] : p \in pairs}
       /\ e.nodes = Nodes(e.cg)
       /\ \A i \in 1..Len(e.yaml) :
            (/\ e.yaml[i].callees = <<>>
             /\ \A p \in pairs : p[2] # e.yaml[i].caller)
              => e.yaml[i].caller \notin e.nodes

C29_Witness ==
  /\ Len(harness_cfg) = 2
  /\ harness_cfg[1].yaml = <<[caller |-> LLVM, callees |-> <<>>]>>
  /\ harness_cfg[1].nodes = {}
  /\ harness_cfg[2].yaml = <<[caller |-> LLVM, callees |-> <<>>],
                             [caller |-> "a", callees |-> <<"a", "b">>]>>
  /\ harness_cfg[2].nodes = {"a", "b"}

(***************************************************************************)
(* with_timeout over several calls: a call may start while the threads of  *)
(* earlier timed-out calls still run.                                      *)
(***************************************************************************)
NextWrapper ==
  \/ \E sink_funcname \in {"a", "b"} : TimedCall(sink_funcname, MaxCalls + 1)
  \/ ThreadStart
  \/ WorkerStep
  \/ JoinReturns
  \/ JoinTimesOut
  \/ \E i \in 1..(MaxCalls + 1) : LeakedStep(i)

SpecWrapper == InitPaths /\ [][NextWrapper]_vars

\* C30: a call of the wrapped function ends with the value or the exception
\* of the thread that this call started, or with the timeout; a thread that
\* an earlier call abandoned changes the outcome of no call, whenever it runs
\* or ends
C30_WrapperIsolation ==
  /\ call.state = "COMPLETED" =>
       /\ call.exc = NoneVal
       /\ call.result
            = FindPathsResult(
                <<call.sink>>
                  \o Flatten([i \in 1..Len(call.cache) |->
                                HarnessPaths(call.cache[i].cg, call.sink)]))
  /\ call.state = "TIMED_OUT" => call.result = <<call.sink>> /\ call.exc = NoneVal
  /\ call.state # "RAISED"
  /\ call.state = "RUNNING" => thread.sink = call.sink

C30_Witness ==
  /\ call.state = "COMPLETED"
  /\ call.sink = "b"
  /\ Len(call.result) >= 2
  /\ Len(call.cache) = 2
  /\ \E i \in 1..Len(leaked) :
       leaked[i].sink = "a" /\ leaked[i].idx = 2 /\ Len(leaked[i].call_path) >= 2

====
